---- MODULE Spec2Model ----
(***************************************************************************)
(* Geometric compliance engine of the ILMCS backend:                       *)
(*   backend/gis_engine/spatial_analysis.py  (area, clipping, IoU, batch)  *)
(*   backend/gis_engine/spatial.py           (risk score, severity)        *)
(*   ai_pipeline/encroachment/analyzer.py    (risk score, classification)  *)
(*                                                                         *)
(* Numbers.  A coordinate is an integer number of units, Res units to the   *)
(* micro-degree (1e-6 degree): the code rounds every ring it builds to      *)
(* whole micro-degrees (round(x, 6)), its inputs are arbitrary doubles.     *)
(* Points produced inside the clipper are exact rationals, kept as          *)
(* homogeneous triples <<X, Y, W>> meaning (X/W, Y/W), W > 0; a tie of      *)
(* round() is resolved on the exact value (to even).                        *)
(* The longitude scale m_per_deg_lon(lat) is evaluated over a window of a   *)
(* few hundred micro-degrees, where cos(lat) is constant to 9 digits; the   *)
(* window sits at the latitude whose cosine is CosNum/CosDen.  An area is   *)
(* kept in "area units": half a square unit after projection, so that the   *)
(* shoelace sum of an integer ring is an integer.                           *)
(***************************************************************************)
EXTENDS Integers, Sequences, FiniteSets, TLC

\* ------------------------------------------------------------------ bounds
MaxCoord == 2        \* ring vertices lie on grid lines 0..MaxCoord
Step == 61           \* distance between grid lines, in units
Res == 3             \* units per micro-degree

\* --------------------------------------------------------- integer helpers
Abs(x) == IF x < 0 THEN -x ELSE x
Min(a, b) == IF a <= b THEN a ELSE b
Max(a, b) == IF a >= b THEN a ELSE b

RECURSIVE GCD(_, _)
GCD(a, b) == IF b = 0 THEN a ELSE GCD(b, a % b)

\* Python round(): nearest integer to n/d (d > 0), ties to the even one.
RoundDiv(n, d) ==
  LET m == Abs(n)
      q == m \div d
      r == m % d
      up == IF 2 * r > d THEN q + 1
            ELSE IF 2 * r < d THEN q
            ELSE IF q % 2 = 0 THEN q ELSE q + 1
  IN IF n < 0 THEN -up ELSE up

\* math.sqrt in fixed point.  ISqrt(n) is the largest r with r*r <= n;
\* Sqrt100(n) is 100 * sqrt(n), interpolated between r and r + 1 (exact at
\* squares, within 0.02 elsewhere for n >= 196).
RECURSIVE SqrtBetween(_, _, _)
SqrtBetween(n, lo, hi) ==
  IF lo >= hi THEN lo
  ELSE LET mid == (lo + hi + 1) \div 2
       IN IF mid * mid <= n THEN SqrtBetween(n, mid, hi)
          ELSE SqrtBetween(n, lo, mid - 1)
ISqrt(n) == SqrtBetween(n, 0, Min(n, 46340))
SqrtFrac(n) == LET r == ISqrt(n) IN (100 * (n - r * r)) \div (2 * r + 1)
Sqrt100(n) == 100 * ISqrt(n) + SqrtFrac(n)

\* ------------------------------------------------------- earth constants
\* M_PER_DEG_LAT = 111_320.0 m per degree = 111320 mm per 1000 micro-degrees
M_PER_DEG_LAT == 111320
\* m_per_deg_lon(lat) = 111_320.0 * cos(lat): cos of the window's latitude
CosNum == 14
CosDen == 15
\* half a square micro-degree in m^2 is
\* 111320 * 111320 * (14/15) / 2 * 1e-12 = 0.0057830, kept as SqmNum / SqmDen
SqmNum == 5783
SqmDen == 1000000

\* round(area, 1): an area given in area units, as tenths of m^2
SqmTenths(a) == RoundDiv(a * SqmNum, (SqmDen \div 10) * Res * Res)

\* ------------------------------------------------------------ polygon area
RECURSIVE ShoelaceSum(_, _, _)
ShoelaceSum(coords, n, i) ==
  IF i > n THEN 0
  ELSE LET j == (i % n) + 1
       IN coords[i][1] * coords[j][2] - coords[j][1] * coords[i][2]
          + ShoelaceSum(coords, n, i + 1)

\* polygon_area_sqm without abs(): the signed shoelace area
polygon_area_signed(coords) ==
  IF Len(coords) < 4 THEN 0
  ELSE ShoelaceSum(coords, Len(coords) - 1, 1)

\* polygon_area_sqm: 0 below 4 points; else abs(shoelace)/2 of the ring
\* projected about its vertex centroid.  The shoelace sum over the cycle of
\* the first n points is independent of the centroid subtracted, and the two
\* scale factors are those of the area unit.
polygon_area_sqm(coords) ==
  IF Len(coords) < 4 THEN 0
  ELSE Abs(ShoelaceSum(coords, Len(coords) - 1, 1))

\* --------------------------------------------------------------- IoU
\* compute_iou, result in 1e-4 (round(x, 4))
compute_iou(area_allotted, area_detected, area_intersection) ==
  LET union == area_allotted + area_detected - area_intersection
  IN IF union <= 0
     THEN (IF area_allotted <= 0 /\ area_detected <= 0 THEN 10000 ELSE 0)
     ELSE RoundDiv(area_intersection * 10000, union)

\* spatial.compute_iou once Shapely has given the two areas, result in 1e-4:
\* intersection = allotted.intersection(detected).area,
\* union = allotted.union(detected).area
sp_compute_iou(intersection, union) ==
  IF union = 0 THEN 0 ELSE RoundDiv(intersection * 10000, union)

\* compute_area_deviation, result in 0.01 percent (round(x, 2))
compute_area_deviation(allotted_sqm, detected_sqm) ==
  IF allotted_sqm <= 0 THEN 0
  ELSE RoundDiv((detected_sqm - allotted_sqm) * 10000, allotted_sqm)

\* ------------------------------------------- Sutherland-Hodgman clipping
\* a ring vertex as a homogeneous point
Hom(p) == <<p[1], p[2], 1>>

NormPoint(X, Y, W) ==
  LET g == GCD(GCD(Abs(X), Abs(Y)), Abs(W))
      s == IF W < 0 THEN -g ELSE g
  IN <<X \div s, Y \div s, W \div s>>

\* _is_inside: point on the left of (or on) the directed edge
is_inside(point, edge_start, edge_end) ==
  (edge_end[1] - edge_start[1]) * (point[2] - edge_start[2] * point[3])
  - (edge_end[2] - edge_start[2]) * (point[1] - edge_start[1] * point[3]) >= 0

\* _line_intersection of the line p1-p2 (rational points) with the line
\* p3-p4 (ring vertices); <<>> stands for None.
\*   denom = Dn / (W1*W2);  abs(denom) < 1e-12 deg^2 = Res*Res square units
\*   t = Tn*W2 / Dn = tn*W2 / dn;  ix = x1 + t*(x2 - x1)
line_intersection(p1, p2, p3, p4) ==
  LET dx12 == p1[1] * p2[3] - p2[1] * p1[3]
      dy12 == p1[2] * p2[3] - p2[2] * p1[3]
      Dn == dx12 * (p3[2] - p4[2]) - dy12 * (p3[1] - p4[1])
      Tn == (p1[1] - p3[1] * p1[3]) * (p3[2] - p4[2])
            - (p1[2] - p3[2] * p1[3]) * (p3[1] - p4[1])
      g == GCD(Abs(Tn), Abs(Dn))
      tn == Tn \div g
      dn == Dn \div g
  IN IF Abs(Dn) < Res * Res * p1[3] * p2[3] THEN <<>>
     ELSE NormPoint(p1[1] * dn - tn * dx12, p1[2] * dn - tn * dy12, dn * p1[3])

\* the inner loop of polygon_intersection: one pass over input_list for one
\* clip edge, from index i on
\* what one vertex appends to output: cin and pin are _is_inside of the
\* vertex and of its predecessor, x the intersection of their segment with
\* the clip edge
ClipStep(current, cin, pin, x) ==
  IF cin
  THEN (IF ~pin /\ x # <<>> THEN <<x>> ELSE <<>>) \o <<current>>
  ELSE IF pin /\ x # <<>> THEN <<x>> ELSE <<>>

RECURSIVE ClipPass(_, _, _, _)
ClipPass(input_list, i, edge_start, edge_end) ==
  IF i > Len(input_list) THEN <<>>
  ELSE LET current == input_list[i]
           prev == input_list[IF i = 1 THEN Len(input_list) ELSE i - 1]
       IN ClipStep(current,
                   is_inside(current, edge_start, edge_end),
                   is_inside(prev, edge_start, edge_end),
                   line_intersection(prev, current, Hom(edge_start),
                                     Hom(edge_end)))
          \o ClipPass(input_list, i + 1, edge_start, edge_end)

\* the outer loop: clip against edge k, k+1, ... of the clip ring
RECURSIVE ClipEdges(_, _, _)
ClipEdges(output, clip, k) ==
  IF k > Len(clip) - 1 \/ output = <<>> THEN output
  ELSE ClipEdges(ClipPass(output, 1, clip[k], clip[k + 1]), clip, k + 1)

\* round(p, 6) of a rational point: to whole micro-degrees
RoundPoint(p) ==
  <<Res * RoundDiv(p[1], p[3] * Res), Res * RoundDiv(p[2], p[3] * Res)>>

\* polygon_intersection(subject, clip): <<>> when nothing is left
\* result.append(result[0]): the ring closed on its first point
CloseRing(result) == Append(result, result[1])

\* the rounded, closed ring of a clipper output; <<>> when nothing is left
RoundRing(output) ==
  IF output = <<>> THEN <<>>
  ELSE CloseRing([i \in 1..Len(output) |-> RoundPoint(output[i])])

polygon_intersection(subject, clip) ==
  RoundRing(ClipEdges([i \in 1..(Len(subject) - 1) |-> Hom(subject[i])],
                      clip, 1))

\* polygon_difference returning the clipped intersection in the partial case
DifferenceGivenClipped(subject, inter) ==
  IF inter = <<>> \/ Len(inter) < 4 THEN subject
  ELSE IF polygon_area_sqm(inter) * 100 >= polygon_area_sqm(subject) * 95
       THEN <<>>
       ELSE inter

\* polygon_difference returning [] where there is no intersection
DifferenceGivenEmpty(subject, inter) ==
  IF inter = <<>> \/ Len(inter) < 4 THEN <<>>
  ELSE IF polygon_area_sqm(inter) * 100 >= polygon_area_sqm(subject) * 95
       THEN <<>>
       ELSE subject

\* polygon_difference(subject, clip): the three-way approximation
\* (DifferenceGiven: the branches, given inter = polygon_intersection)
DifferenceGiven(subject, inter) ==
  IF inter = <<>> \/ Len(inter) < 4 THEN subject
  ELSE IF polygon_area_sqm(inter) * 100 >= polygon_area_sqm(subject) * 95
       THEN <<>>
       ELSE subject

polygon_difference(subject, clip) ==
  DifferenceGiven(subject, polygon_intersection(subject, clip))

\* ----------------------------------------------------- centroid and buffer
RECURSIVE SumCoord(_, _, _)
SumCoord(coords, n, k) ==
  IF n = 0 THEN 0 ELSE coords[n][k] + SumCoord(coords, n - 1, k)

\* polygon_centroid as <<sum_x, sum_y, n>>: the centroid is (sum_x/n, sum_y/n),
\* over all points but the last when the ring is closed, else over all of them
polygon_centroid(coords) ==
  LET n == IF coords[1] = coords[Len(coords)] THEN Len(coords) - 1
           ELSE Len(coords)
  IN <<SumCoord(coords, n, 1), SumCoord(coords, n, 2), Max(n, 1)>>

\* _point_distance_m times 15 * Res / 0.11132, squared: with a = dx and
\* b = dy in units, dist = 0.11132 / Res * sqrt((a*14/15)^2 + b^2) metres
DistSq(a, b) == CosNum * CosNum * a * a + CosDen * CosDen * b * b

\* one vertex of buffer_polygon.  With c - centroid = (a/n, b/n) and
\* s = 100 * sqrt(DistSq(a, b)):  dist = 0.11132 * s / (1500 * n * Res) metres,
\*   new_lon = round(cx + (c[0] - cx) * (dist + buffer_m) / dist, 6)
\*           = round(c[0] + a * (buffer_mm * Res * 37500 / 2783) / s)   (units)
\* dist < 1e-9 only for the vertex on the centroid (a = b = 0), which is
\* appended as it is, unrounded.
BufferVertex(c, cen, buffer_mm) ==
  LET a == c[1] * cen[3] - cen[1]
      b == c[2] * cen[3] - cen[2]
      s == Sqrt100(DistSq(a, b))
      reach == RoundDiv(buffer_mm * Res * 37500, M_PER_DEG_LAT \div 40)
  IN IF a = 0 /\ b = 0 THEN c
     ELSE <<Res * RoundDiv(c[1] * s + a * reach, s * Res),
            Res * RoundDiv(c[2] * s + b * reach, s * Res)>>

\* buffer_polygon without buffered.append(buffered[0]): the ring left open
buffer_polygon_open(coords, buffer_mm) ==
  IF Len(coords) < 4 THEN coords
  ELSE [i \in 1..(Len(coords) - 1) |->
          BufferVertex(coords[i], polygon_centroid(coords), buffer_mm)]

\* buffer_polygon(coords, buffer_m), the distance given in millimetres
buffer_polygon(coords, buffer_mm) ==
  IF Len(coords) < 4 THEN coords
  ELSE CloseRing([i \in 1..(Len(coords) - 1) |->
                    BufferVertex(coords[i], polygon_centroid(coords),
                                 buffer_mm)])

\* ------------------------------------------------------ Hausdorff distance
SetMin(S) == CHOOSE m \in S : \A x \in S : m <= x
SetMax(S) == CHOOSE m \in S : \A x \in S : m >= x

\* _directed_hausdorff, as the DistSq of the farthest nearest neighbour
\* (max_dist starts at 0; coords_b is never empty here, where min_dist would
\* stay infinite)
directed_hausdorff(coords_a, coords_b) ==
  IF coords_a = <<>> THEN 0
  ELSE SetMax({ SetMin({ DistSq(coords_b[j][1] - coords_a[i][1],
                                coords_b[j][2] - coords_a[i][2])
                         : j \in 1..Len(coords_b) })
                : i \in 1..Len(coords_a) })

\* hausdorff_distance with d2 left out: the directed distance from coords_a
hausdorff_distance_directed(coords_a, coords_b) ==
  LET q == directed_hausdorff(coords_a, coords_b)
  IN RoundDiv(ISqrt(q) * 7421 + (SqrtFrac(q) * 7421) \div 100, 10000 * Res)

\* hausdorff_distance in centimetres (round(x, 2)):
\* 0.11132 / (15 * Res) * sqrt(q) m = 0.7421 / Res * sqrt(q) cm
hausdorff_distance(coords_a, coords_b) ==
  LET q == Max(directed_hausdorff(coords_a, coords_b),
               directed_hausdorff(coords_b, coords_a))
  IN RoundDiv(ISqrt(q) * 7421 + (SqrtFrac(q) * 7421) \div 100, 10000 * Res)

\* ------------------------------------- severity and risk (spatial_analysis)
\* SEVERITY_WEIGHTS, in hundredths; .get(severity, 0.3) for any other string
SEVERITY_WEIGHTS(severity) ==
  CASE severity = "critical" -> 100
    [] severity = "high" -> 75
    [] severity = "medium" -> 50
    [] severity = "low" -> 20
    [] OTHER -> 30

\* classify_severity(area_deviation_pct, iou): deviation in 0.01 percent,
\* iou in 1e-4
classify_severity(area_deviation_pct, iou) ==
  LET deviation == Abs(area_deviation_pct)
  IN IF deviation > 2500 \/ iou < 5000 THEN "critical"
     ELSE IF deviation > 1500 \/ iou < 6500 THEN "high"
     ELSE IF deviation > 800 \/ iou < 8000 THEN "medium"
     ELSE "low"

\* the bonus of spatial_analysis.compute_risk_score, in hundredths
RiskBonus(payment_default, temporal_persistence) ==
  (IF payment_default THEN 50 ELSE 0)
  + (IF temporal_persistence >= 3 THEN 30
     ELSE IF temporal_persistence >= 2 THEN 15 ELSE 0)

\* spatial_analysis.compute_risk_score, result in 1e-3 (round(x, 3)).
\* Inputs: deviation in 0.01 percent, confidence in hundredths, iou in 1e-4.
\* score * 3000000 = 0.30*s_severity + 0.25*s_deviation + 0.20*confidence
\*                   + 0.15*s_iou_dep + 0.10*min(bonus, 1), each times 3e6
sa_risk_unclamped(severity, area_deviation_pct, confidence, iou, payment_default, temporal_persistence) ==
  9000 * SEVERITY_WEIGHTS(severity)
  + 25 * Min(Abs(area_deviation_pct) * 10, 30000)
  + 6000 * confidence
  + 45 * (10000 - iou)
  + 3000 * Min(RiskBonus(payment_default, temporal_persistence), 100)

sa_compute_risk_score(severity, area_deviation_pct, confidence, iou, payment_default, temporal_persistence) ==
  LET score == sa_risk_unclamped(severity, area_deviation_pct, confidence,
                                 iou, payment_default, temporal_persistence)
  IN RoundDiv(Min(Max(score, 0), 3000000), 3000)

\* ------------------------------------------------ single-plot analysis
\* analyze_plot_encroachment(allotted_coords, detected_coords, tolerance):
\* areas in tenths of m^2, iou in 1e-4, deviation in 0.01 percent, risk in
\* 1e-3, Hausdorff distance in cm, tolerance in mm; <<>> stands for None
\* the intersection area and the iou of analyze_plot_encroachment: the
\* detection clipped against the allotted ring itself, not the buffered one
AreaOrZero(inter_coords) ==
  IF inter_coords # <<>> THEN polygon_area_sqm(inter_coords) ELSE 0

analysis_inter_area(allotted_coords, detected_coords) ==
  AreaOrZero(polygon_intersection(detected_coords, allotted_coords))

analysis_iou(allotted_coords, detected_coords) ==
  compute_iou(polygon_area_sqm(allotted_coords),
              polygon_area_sqm(detected_coords),
              analysis_inter_area(allotted_coords, detected_coords))

\* the returned dict, given the areas, the difference ring and the
\* Hausdorff distance computed from the two rings
AnalysisGiven(allotted_area, detected_area, inter_area, diff_coords, buffered_inter_area, hausdorff, buffer_tolerance_mm) ==
  LET iou == compute_iou(allotted_area, detected_area, inter_area)
      deviation == compute_area_deviation(allotted_area, detected_area)
      encroachment_area == Max(0, detected_area - buffered_inter_area)
      severity == classify_severity(deviation, iou)
  IN [ allotted_area_sqm |-> SqmTenths(allotted_area),
       detected_area_sqm |-> SqmTenths(detected_area),
       intersection_area_sqm |-> SqmTenths(inter_area),
       iou |-> iou,
       area_deviation_pct |-> deviation,
       encroachment_area_sqm |-> SqmTenths(encroachment_area),
       severity |-> severity,
       risk_score |-> sa_compute_risk_score(severity, deviation, 85, iou,
                                            FALSE, 1),
       hausdorff_distance_m |-> hausdorff,
       buffer_tolerance_m |-> buffer_tolerance_mm,
       encroachment_geojson |->
         IF diff_coords # <<>> /\ Len(diff_coords) >= 4
         THEN [ area_sqm |-> SqmTenths(encroachment_area),
                severity |-> severity,
                coordinates |-> diff_coords ]
         ELSE <<>> ]

analyze_plot_encroachment(allotted_coords, detected_coords, buffer_tolerance_mm) ==
  AnalysisGiven(
    polygon_area_sqm(allotted_coords),
    polygon_area_sqm(detected_coords),
    analysis_inter_area(allotted_coords, detected_coords),
    polygon_difference(detected_coords,
                       buffer_polygon(allotted_coords, buffer_tolerance_mm)),
    polygon_area_sqm(
      polygon_intersection(detected_coords,
                           buffer_polygon(allotted_coords, buffer_tolerance_mm))),
    hausdorff_distance(allotted_coords, detected_coords),
    buffer_tolerance_mm)

\* ------------------------------- risk engine (EncroachmentAnalyzer)
\* WEIGHTS, in hundredths
WEIGHTS ==
  [ area_deviation |-> 25, iou |-> 25, boundary_depth |-> 20,
    temporal_trend |-> 15, vacancy |-> 15 ]

\* the five terms of EncroachmentAnalyzer.compute_risk_score, each times 90000.
\* Inputs: iou in 1e-4, deviation in 0.01 percent, depth in cm, months as an
\* integer, trend slope in 1e-3 per month.
\*   s_area = min(1.0, abs(deviation_pct) / 50.0)
\* (ea_s_area_signed: the same term without abs)
ea_s_area_signed(deviation_pct) == Min(90000, deviation_pct * 18)
ea_s_area(deviation_pct) == Min(90000, Abs(deviation_pct) * 18)
\*   s_iou = 1.0 - iou
ea_s_iou(iou) == (10000 - iou) * 9
\*   s_boundary = min(1.0, max_depth_m / 20.0)
ea_s_boundary(max_depth_m) == Min(90000, max_depth_m * 45)
\*   s_temporal = min(1.0, abs(trend_slope) * 6)
ea_s_temporal(trend_slope) == Min(90000, Abs(trend_slope) * 540)
\*   s_vacancy = min(1.0, months_vacant / 36.0)
ea_s_vacancy(months_vacant) == Min(90000, months_vacant * 2500)

\* EncroachmentAnalyzer.compute_risk_score, result in 1e-4:
\* round(min(1.0, max(0.0, risk)), 4), risk = weighted sum / 9000000
ea_compute_risk_score(iou, deviation_pct, max_depth_m, months_vacant, trend_slope) ==
  LET risk == WEIGHTS.area_deviation * ea_s_area(deviation_pct)
              + WEIGHTS.iou * ea_s_iou(iou)
              + WEIGHTS.boundary_depth * ea_s_boundary(max_depth_m)
              + WEIGHTS.temporal_trend * ea_s_temporal(trend_slope)
              + WEIGHTS.vacancy * ea_s_vacancy(months_vacant)
  IN RoundDiv(Min(9000000, Max(0, risk)), 900)

\* EncroachmentAnalyzer.classify_risk, score in 1e-4
\* (classify_risk_inclusive: the same ladder with <= in place of <)
classify_risk_inclusive(score) ==
  IF score <= 2000 THEN "LOW"
  ELSE IF score <= 4000 THEN "MODERATE"
  ELSE IF score <= 6000 THEN "HIGH"
  ELSE IF score <= 8000 THEN "CRITICAL"
  ELSE "SEVERE"
classify_risk(score) ==
  IF score < 2000 THEN "LOW"
  ELSE IF score < 4000 THEN "MODERATE"
  ELSE IF score < 6000 THEN "HIGH"
  ELSE IF score < 8000 THEN "CRITICAL"
  ELSE "SEVERE"

\* EncroachmentAnalyzer.classify_violation_type.  encroachment is "none"
\* (None), "empty" (an empty geometry) or "polygon"; deviation in 0.01 percent
classify_violation_type(deviation_pct, encroachment, detected_class, allotment_class) ==
  IF encroachment # "none" /\ encroachment # "empty"
  THEN (IF deviation_pct > 1000 THEN "BOUNDARY_EXCEED" ELSE "ENCROACHMENT")
  ELSE IF detected_class = "VACANT" /\ allotment_class = "industrial"
  THEN "VACANCY"
  ELSE IF detected_class # allotment_class THEN "LAND_USE_CHANGE"
  ELSE IF deviation_pct < -3000 THEN "PARTIAL_UTILIZATION"
  ELSE "UNAUTHORIZED_CONSTRUCTION"

\* ------------------------------------------- risk engine (spatial.py)
\* spatial.severity_from_score, score in 1e-4
severity_from_score(score) ==
  IF score >= 8000 THEN "CRITICAL"
  ELSE IF score >= 6000 THEN "SEVERE"
  ELSE IF score >= 4000 THEN "HIGH"
  ELSE IF score >= 2000 THEN "MEDIUM"
  ELSE "LOW"

\* spatial.compute_risk_score with its default weights, result in 1e-4.
\* Inputs: iou in 1e-4, area_deviation (a ratio) in 1e-4, encroachment_area
\* in 0.01 m^2, temporal_persistence in hundredths.
\*   score * 5000000 = 0.30*iou_risk + 0.25*area_risk + 0.25*encroach_risk
\*                     + 0.20*temporal_risk, each times 5e6
\*   return round(min(score, 1.0), 4)
sp_compute_risk_score(iou, area_deviation, encroachment_area, temporal_persistence) ==
  LET iou_risk == Max(0, 10000 - iou) * 5
      area_risk == Min(area_deviation, 10000) * 5
      encroach_risk == Min(encroachment_area, 50000)
      temporal_risk == Min(temporal_persistence, 100) * 500
      score == 30 * iou_risk + 25 * area_risk + 25 * encroach_risk
               + 20 * temporal_risk
  IN RoundDiv(Min(score, 5000000), 500)

\* ------------------------------------------------------- region batch
\* the inner loop with area >= best_overlap for area > best_overlap
RECURSIVE BestMatchFromLast(_, _, _, _, _)
BestMatchFromLast(allotted_coords, detected_structures, k, best_match, best_overlap) ==
  IF k > Len(detected_structures) THEN best_match
  ELSE LET dcoords == detected_structures[k].detected_coords
           inter == polygon_intersection(dcoords, allotted_coords)
           area == polygon_area_sqm(inter)
       IN IF dcoords = <<>> \/ Len(dcoords) < 4
          THEN BestMatchFromLast(allotted_coords, detected_structures, k + 1,
                                 best_match, best_overlap)
          ELSE IF inter # <<>> /\ area >= best_overlap
          THEN BestMatchFromLast(allotted_coords, detected_structures, k + 1,
                                 k, area)
          ELSE BestMatchFromLast(allotted_coords, detected_structures, k + 1,
                                 best_match, best_overlap)

\* the inner loop of batch_analyze_region over detected_structures[k..]:
\* the index of best_match (0 for None), given the best so far
RECURSIVE BestMatchFrom(_, _, _, _, _)
BestMatchFrom(allotted_coords, detected_structures, k, best_match, best_overlap) ==
  IF k > Len(detected_structures) THEN best_match
  ELSE LET dcoords == detected_structures[k].detected_coords
           inter == polygon_intersection(dcoords, allotted_coords)
           area == polygon_area_sqm(inter)
       IN IF dcoords = <<>> \/ Len(dcoords) < 4
          THEN BestMatchFrom(allotted_coords, detected_structures, k + 1,
                             best_match, best_overlap)
          ELSE IF inter # <<>> /\ area > best_overlap
          THEN BestMatchFrom(allotted_coords, detected_structures, k + 1, k, area)
          ELSE BestMatchFrom(allotted_coords, detected_structures, k + 1,
                             best_match, best_overlap)

\* best_match of one plot: 0 when the plot is skipped (no boundary or fewer
\* than 4 points) or no structure has a positive overlap
BestMatch(plot, detected_structures) ==
  IF plot.boundary_coords = <<>> \/ Len(plot.boundary_coords) < 4 THEN 0
  ELSE BestMatchFrom(plot.boundary_coords, detected_structures, 1, 0, 0)

\* the entry appended to results for a matched plot
\* analysis["plot_id"] = ...; analysis["confidence"] = ...
WithPlot(a, plot_id, confidence) ==
     [ plot_id |-> plot_id,
       confidence |-> confidence,
       allotted_area_sqm |-> a.allotted_area_sqm,
       detected_area_sqm |-> a.detected_area_sqm,
       intersection_area_sqm |-> a.intersection_area_sqm,
       iou |-> a.iou,
       area_deviation_pct |-> a.area_deviation_pct,
       encroachment_area_sqm |-> a.encroachment_area_sqm,
       severity |-> a.severity,
       risk_score |-> a.risk_score,
       hausdorff_distance_m |-> a.hausdorff_distance_m,
       buffer_tolerance_m |-> a.buffer_tolerance_m,
       encroachment_geojson |-> a.encroachment_geojson ]

PlotAnalysis(plot, ds, buffer_tolerance_mm) ==
  WithPlot(analyze_plot_encroachment(plot.boundary_coords, ds.detected_coords,
                                     buffer_tolerance_mm),
           plot.plot_id, ds.confidence)

\* the outer loop leaving at the first plot without a match (break for
\* continue)
RECURSIVE BatchResultsBreak(_, _, _, _, _)
BatchResultsBreak(plots_in, detected_structures, matches, i, buffer_tolerance_mm) ==
  IF i > Len(plots_in) THEN <<>>
  ELSE IF matches[i] = 0 THEN <<>>
  ELSE <<PlotAnalysis(plots_in[i], detected_structures[matches[i]],
                      buffer_tolerance_mm)>>
       \o BatchResultsBreak(plots_in, detected_structures, matches, i + 1,
                            buffer_tolerance_mm)

\* the outer loop over plots[i..]: the results list, given the best_match
\* found for each plot
RECURSIVE BatchResults(_, _, _, _, _)
BatchResults(plots_in, detected_structures, matches, i, buffer_tolerance_mm) ==
  IF i > Len(plots_in) THEN <<>>
  ELSE LET rest == BatchResults(plots_in, detected_structures, matches, i + 1,
                                buffer_tolerance_mm)
       IN IF matches[i] = 0 THEN rest
          ELSE <<PlotAnalysis(plots_in[i], detected_structures[matches[i]],
                              buffer_tolerance_mm)>> \o rest

\* best_match of every plot of the batch
BestMatches(plots_in, detected_structures) ==
  [ i \in 1..Len(plots_in) |-> BestMatch(plots_in[i], detected_structures) ]

RECURSIVE SumEncroachment(_, _)
SumEncroachment(results, n) ==
  IF n = 0 THEN 0
  ELSE results[n].encroachment_area_sqm + SumEncroachment(results, n - 1)

SeverityCount(results, sev) ==
  Cardinality({ i \in 1..Len(results) : results[i].severity = sev })

\* the returned dict with violations_found counting the plots, not the results
RegionReportCountsPlots(plots_in, results) ==
     [ total_plots_analyzed |-> Len(plots_in),
       violations_found |-> Len(plots_in),
       total_encroachment_sqm |-> SumEncroachment(results, Len(results)),
       severity_breakdown |->
         [ low |-> SeverityCount(results, "low"),
           medium |-> SeverityCount(results, "medium"),
           high |-> SeverityCount(results, "high"),
           critical |-> SeverityCount(results, "critical") ],
       plot_analyses |-> results ]

\* the returned dict, given the results list
RegionReport(plots_in, results) ==
     [ total_plots_analyzed |-> Len(plots_in),
       violations_found |-> Len(results),
       total_encroachment_sqm |-> SumEncroachment(results, Len(results)),
       severity_breakdown |->
         [ low |-> SeverityCount(results, "low"),
           medium |-> SeverityCount(results, "medium"),
           high |-> SeverityCount(results, "high"),
           critical |-> SeverityCount(results, "critical") ],
       plot_analyses |-> results ]

\* batch_analyze_region(plots, detected_structures, buffer_tolerance_m), given
\* the best_match its inner loop finds for each plot
batch_analyze_region(plots_in, detected_structures, matches, buffer_tolerance_mm) ==
  RegionReport(plots_in,
               BatchResults(plots_in, detected_structures, matches, 1,
                            buffer_tolerance_mm))

\* ---------------------------------------------------------------- inputs
\* Grid line k, in units.  Line k lies k % Res units off a whole
\* micro-degree, as the coordinates of a surveyed boundary do (a double with
\* more than 6 decimals).
Coord(k) == k * Step + (k % Res)

GridPoints == { <<Coord(i), Coord(j)>> : i \in 0..MaxCoord, j \in 0..MaxCoord }

Cross(p, q, r) ==
  (q[1] - p[1]) * (r[2] - p[2]) - (q[2] - p[2]) * (r[1] - p[1])

LexLess(p, q) == p[1] < q[1] \/ (p[1] = q[1] /\ p[2] < q[2])

\* closed triangles in either winding direction, listed from their smallest
\* vertex
Triangles ==
  { <<t[1], t[2], t[3], t[1]>> : t \in
      { u \in GridPoints \X GridPoints \X GridPoints :
          LexLess(u[1], u[2]) /\ LexLess(u[1], u[3]) /\ Cross(u[1], u[2], u[3]) # 0 } }

Rect(x1, y1, x2, y2) ==
  << <<x1, y1>>, <<x2, y1>>, <<x2, y2>>, <<x1, y2>>, <<x1, y1>> >>
RectCW(x1, y1, x2, y2) ==
  << <<x1, y1>>, <<x1, y2>>, <<x2, y2>>, <<x2, y1>>, <<x1, y1>> >>

GridBoxes ==
  { b \in (0..MaxCoord) \X (0..MaxCoord) \X (0..MaxCoord) \X (0..MaxCoord) :
      b[1] < b[3] /\ b[2] < b[4] }

\* closed axis-parallel rectangles, counter-clockwise and clockwise
Rectangles ==
  { Rect(Coord(b[1]), Coord(b[2]), Coord(b[3]), Coord(b[4])) : b \in GridBoxes }
  \cup
  { RectCW(Coord(b[1]), Coord(b[2]), Coord(b[3]), Coord(b[4])) : b \in GridBoxes }

\* BUFFER default of analyze_plot_encroachment and batch_analyze_region: 2.0 m
DefaultToleranceMm == 2000

\* the default tolerance as whole micro-degrees, rounded up: 2.0 m is 19.25
\* micro-degrees of longitude and 17.97 of latitude
MarginMicroDeg ==
  (DefaultToleranceMm * CosDen * 1000) \div (M_PER_DEG_LAT * CosNum) + 1

\* the whole micro-degree lines MarginMicroDeg inside the grid lines x1 < x2
InsetLo(x1) == Res * (((x1 + Res - 1) \div Res) + MarginMicroDeg)
InsetHi(x2) == Res * ((x2 \div Res) - MarginMicroDeg)

\* footprints that lie inside a grid box with a margin of at least the
\* default tolerance on every side, counter-clockwise and clockwise
InsetRectangles ==
  LET boxes == { b \in GridBoxes :
                   /\ InsetLo(Coord(b[1])) < InsetHi(Coord(b[3]))
                   /\ InsetLo(Coord(b[2])) < InsetHi(Coord(b[4])) }
  IN { Rect(InsetLo(Coord(b[1])), InsetLo(Coord(b[2])),
            InsetHi(Coord(b[3])), InsetHi(Coord(b[4]))) : b \in boxes }
     \cup
     { RectCW(InsetLo(Coord(b[1])), InsetLo(Coord(b[2])),
              InsetHi(Coord(b[3])), InsetHi(Coord(b[4]))) : b \in boxes }

\* gaps, in micro-degrees, between the last grid line and a footprint east of
\* it: one well inside the default tolerance and one well beyond it
GapMicroDeg == {1, 2 * MarginMicroDeg}

\* footprints strictly east of every grid box, counter-clockwise and clockwise
OutsideRectangles ==
  LET east(g) == Coord(MaxCoord) + Res * g
      spans == { y \in (0..MaxCoord) \X (0..MaxCoord) : y[1] < y[2] }
  IN { Rect(east(g), Coord(y[1]), east(g) + Step, Coord(y[2]))
         : g \in GapMicroDeg, y \in spans }
     \cup
     { RectCW(east(g), Coord(y[1]), east(g) + Step, Coord(y[2]))
         : g \in GapMicroDeg, y \in spans }

\* plot boundaries are rectangles; a detected footprint is any ring
PlotRings == Rectangles
Rings == Triangles \cup Rectangles \cup InsetRectangles \cup OutsideRectangles

\* counter-clockwise rings: positive signed shoelace sum
\* the ring with its vertices in the opposite order
Reverse(ring) == [ i \in 1..Len(ring) |-> ring[Len(ring) + 1 - i] ]

IsCCW(ring) == ShoelaceSum(ring, Len(ring) - 1, 1) > 0

\* --------------------------------------------------- region batch inputs
MaxPlots == 3        \* plots per region batch
MaxDets == 2         \* detected structures per region batch

\* boundary_coords of the plots of a batch: two neighbouring cells, a ring
\* of 3 points, and the second cell without its closing point
BatchPlotRings ==
  { Rect(Coord(0), Coord(0), Coord(1), Coord(1)),
    Rect(Coord(1), Coord(0), Coord(2), Coord(1)),
    << <<Coord(0), Coord(0)>>, <<Coord(1), Coord(0)>>, <<Coord(0), Coord(0)>> >>,
    << <<Coord(1), Coord(0)>>, <<Coord(2), Coord(0)>>, <<Coord(2), Coord(1)>>,
       <<Coord(1), Coord(1)>> >> }

\* detected structures: a wedge over both cells (a quarter of the first,
\* three quarters of the second), an exact copy of the first cell, and a
\* clockwise copy of the second
BatchDetections ==
  { [ detected_coords |-> << <<Coord(0), Coord(0)>>, <<Coord(2), Coord(0)>>,
                            <<Coord(2), Coord(1)>>, <<Coord(0), Coord(0)>> >>,
      confidence |-> 90 ],
    [ detected_coords |-> Rect(Coord(0), Coord(0), Coord(1), Coord(1)),
      confidence |-> 85 ],
    [ detected_coords |-> RectCW(Coord(1), Coord(0), Coord(2), Coord(1)),
      confidence |-> 70 ] }

\* the orders in which a list of n plots can be handed over
Orders(n) == { p \in [1..n -> 1..n] : \A i, j \in 1..n : p[i] = p[j] => i = j }

BoundedSeq(S, n) == UNION { [1..k -> S] : k \in 0..n }

\* plot records: the plot_id of a plot is its place in the list
MkPlots(rings) ==
  [ i \in 1..Len(rings) |-> [ plot_id |-> i, boundary_coords |-> rings[i] ] ]

\* ----------------------------------------------------------------- state
VARIABLES
  allotted,       \* allotted_coords handed to analyze_plot_encroachment
  detected,       \* detected_coords handed to analyze_plot_encroachment
  analysis,       \* its return value, <<>> before the call
  plots,          \* plots handed to batch_analyze_region
  detected_structures,  \* detected_structures handed to batch_analyze_region
  best_match,     \* per plot, the index of its best_match (0 for None)
  report,         \* the return value of batch_analyze_region, <<>> before
  call,           \* a call of a function: name, arguments, result
  violations_db,  \* _violations_db, in order of creation (the id is the index)
  alert_queue,    \* _alert_queue
  violations_seeded  \* _violations_seeded of the API layer

vars == <<allotted, detected, analysis, plots, detected_structures,
          best_match, report, call, violations_db, alert_queue,
          violations_seeded>>

geomVars == <<allotted, detected, analysis>>
batchVars == <<plots, detected_structures, best_match, report>>
violationVars == <<violations_db, alert_queue, violations_seeded>>

GeomIdle == allotted = <<>> /\ detected = <<>> /\ analysis = <<>>
BatchIdle ==
  plots = <<>> /\ detected_structures = <<>> /\ best_match = <<>> /\ report = <<>>
RiskIdle == call = <<>>
ViolationsIdle ==
  violations_db = <<>> /\ alert_queue = <<>> /\ violations_seeded = {}

\* ------------------------------------------------- single-plot analysis
InitGeom ==
  /\ allotted \in PlotRings
  /\ detected \in Rings
  /\ analysis = <<>>
  /\ BatchIdle
  /\ RiskIdle
  /\ ViolationsIdle

AnalyzePlot ==
  /\ allotted # <<>>
  /\ analysis = <<>>
  /\ analysis' = analyze_plot_encroachment(allotted, detected, DefaultToleranceMm)
  /\ UNCHANGED <<allotted, detected>>
  /\ UNCHANGED <<batchVars, call, violationVars>>

NextGeom == AnalyzePlot

SpecGeom == InitGeom /\ [][NextGeom]_vars

\* ---------------------------------------------------------- region batch
InitBatch ==
  /\ plots \in { MkPlots(rs) : rs \in BoundedSeq(BatchPlotRings, MaxPlots) }
  /\ detected_structures \in BoundedSeq(BatchDetections, MaxDets)
  /\ best_match = <<>>
  /\ report = <<>>
  /\ GeomIdle
  /\ RiskIdle
  /\ ViolationsIdle

BatchAnalyzeRegion ==
  /\ report = <<>>
  /\ best_match' = BestMatches(plots, detected_structures)
  /\ report' = batch_analyze_region(plots, detected_structures, best_match',
                                    DefaultToleranceMm)
  /\ UNCHANGED <<plots, detected_structures>>
  /\ UNCHANGED <<geomVars, call, violationVars>>

NextBatch == BatchAnalyzeRegion

SpecBatch == InitBatch /\ [][NextBatch]_vars

\* ------------------------------------------ the same batch in another order
\* MaxDets different detected structures, in one fixed order
DetectionList ==
  CHOOSE s \in [1..MaxDets -> BatchDetections] :
    \A i, j \in 1..MaxDets : s[i] = s[j] => i = j

\* batch_analyze_region with results kept between calls (a list at module
\* level, or a mutable default argument): the second call starts from the
\* entries of the first
ReorderedReportShared(plots_in, ds, buffer_tolerance_mm) ==
  RegionReport(plots_in,
               report.plot_analyses
                 \o BatchResults(plots_in, ds, BestMatches(plots_in, ds), 1,
                                 buffer_tolerance_mm))

\* batch_analyze_region(plots, detected_structures, buffer_tolerance_m)
\* with its inner loop
ReorderedReport(plots_in, ds, buffer_tolerance_mm) ==
  batch_analyze_region(plots_in, ds, BestMatches(plots_in, ds),
                       buffer_tolerance_mm)

\* a batch and an order in which to hand its plots over a second time
InitReorder ==
  /\ plots \in { MkPlots(rs) : rs \in BoundedSeq(BatchPlotRings, MaxPlots) }
  /\ detected_structures = DetectionList
  /\ best_match = <<>>
  /\ report = <<>>
  /\ call \in { [ fn |-> "batch_analyze_region", args |-> <<p>>,
                  returned |-> FALSE, result |-> 0 ] : p \in Orders(Len(plots)) }
  /\ GeomIdle
  /\ ViolationsIdle

\* the second call, on the plots in the order call.args[1]
BatchAnalyzeReordered ==
  /\ report # <<>>
  /\ call # <<>> /\ call.fn = "batch_analyze_region" /\ ~call.returned
  /\ call' = [call EXCEPT
       !.returned = TRUE,
       !.result = ReorderedReport([ i \in 1..Len(plots) |->
                                     plots[call.args[1][i]] ],
                                  detected_structures, DefaultToleranceMm)]
  /\ UNCHANGED <<geomVars, batchVars, violationVars>>

NextReorder ==
  \/ BatchAnalyzeRegion
  \/ BatchAnalyzeReordered

SpecReorder == InitReorder /\ [][NextReorder]_vars

\* ----------------------------------------------------------- risk engine
\* argument values: in range, on the boundaries, and out of range
IouValues == {-5000, 0, 2000, 5000, 9999, 10000, 15000}
DeviationValues == {-10000, -6000, -2500, 0, 1000, 2500, 5000, 12000}
DepthValues == {-500, 0, 500, 2000, 4000}
MonthValues == {-12, 0, 12, 36, 48}
SlopeValues == {-200, 0, 100}
ConfidenceValues == {-50, 0, 85, 100, 150}
SeverityValues == {"critical", "high", "medium", "low", "unknown"}
PersistenceValues == {0, 1, 2, 3}
RatioValues == {-20000, 0, 2500, 10000, 30000}
EncroachAreaValues == {-100000, 0, 25000, 50000, 90000}
TemporalValues == {-100, 0, 50, 100, 300}
ScoreValues == 0..10000
EncroachmentValues == {"none", "empty", "polygon"}
ClassValues == {"industrial", "residential", "VACANT", "BUILT_UP"}
ViolationDeviationValues == {-10000, -3001, -3000, 0, 1000, 1001, 5000}

\* rings handed to the geometry functions on their own: every footprint, and
\* the rectangles cut short to fewer than 4 points
ShortRings == { SubSeq(r, 1, k) : r \in Rectangles, k \in 0..3 }
CallRings == Rings \cup ShortRings
BufferValues == {0, DefaultToleranceMm}

\* subjects handed to polygon_difference on its own: the rectangular
\* footprints and the triangles with a vertex at the first grid point
DifferenceSubjects ==
  (Rings \ Triangles)
    \cup { t \in Triangles : t[1] = <<Coord(0), Coord(0)>> }

\* areas in m^2 handed to the metric functions on their own: zero, small,
\* and two large areas 0.001 percent apart
AreaCallValues == {0, 1, 50, 100, 100000, 100001}

Call(fn, args) == [ fn |-> fn, args |-> args, returned |-> FALSE, result |-> 0 ]

InitRisk ==
  /\ call \in
       { Call("EncroachmentAnalyzer.compute_risk_score", a) :
           a \in IouValues \X DeviationValues \X DepthValues \X MonthValues
                 \X SlopeValues }
       \cup
       { Call("spatial_analysis.compute_risk_score", a) :
           a \in SeverityValues \X DeviationValues \X ConfidenceValues
                 \X IouValues \X BOOLEAN \X PersistenceValues }
       \cup
       { Call("spatial.compute_risk_score", a) :
           a \in IouValues \X RatioValues \X EncroachAreaValues
                 \X TemporalValues }
       \cup
       { Call("EncroachmentAnalyzer.classify_risk", <<x>>) : x \in ScoreValues }
       \cup
       { Call("spatial.severity_from_score", <<x>>) : x \in ScoreValues }
       \cup
       { Call("EncroachmentAnalyzer.classify_violation_type", a) :
           a \in ViolationDeviationValues \X EncroachmentValues
                 \X ClassValues \X ClassValues }
       \cup
       { Call("polygon_area_sqm", <<r>>) : r \in CallRings }
       \cup
       { Call("buffer_polygon", a) : a \in CallRings \X BufferValues }
       \cup
       { Call("polygon_difference", a) : a \in DifferenceSubjects \X PlotRings }
       \cup
       { Call("spatial_analysis.compute_iou", a) :
           a \in AreaCallValues \X AreaCallValues \X AreaCallValues }
       \cup
       { Call("spatial_analysis.compute_area_deviation", a) :
           a \in AreaCallValues \X AreaCallValues }
       \cup
       { Call("spatial.compute_iou", a) :
           a \in { t \in AreaCallValues \X AreaCallValues \X AreaCallValues :
                     t[3] <= t[1] /\ t[3] <= t[2] } }
  /\ GeomIdle
  /\ BatchIdle
  /\ ViolationsIdle

\* a pending call of fn, the guard of the action that evaluates it
Pending(fn) == call # <<>> /\ call.fn = fn /\ ~call.returned

EaComputeRiskScore ==
  /\ Pending("EncroachmentAnalyzer.compute_risk_score")
  /\ call' = [call EXCEPT
       !.returned = TRUE,
       !.result = ea_compute_risk_score(call.args[1], call.args[2],
                                        call.args[3], call.args[4],
                                        call.args[5])]
  /\ UNCHANGED <<geomVars, batchVars, violationVars>>

SaComputeRiskScore ==
  /\ Pending("spatial_analysis.compute_risk_score")
  /\ call' = [call EXCEPT
       !.returned = TRUE,
       !.result = sa_compute_risk_score(call.args[1], call.args[2],
                                        call.args[3], call.args[4],
                                        call.args[5], call.args[6])]
  /\ UNCHANGED <<geomVars, batchVars, violationVars>>

SpComputeRiskScore ==
  /\ Pending("spatial.compute_risk_score")
  /\ call' = [call EXCEPT
       !.returned = TRUE,
       !.result = sp_compute_risk_score(call.args[1], call.args[2],
                                        call.args[3], call.args[4])]
  /\ UNCHANGED <<geomVars, batchVars, violationVars>>

ClassifyRisk ==
  /\ Pending("EncroachmentAnalyzer.classify_risk")
  /\ call' = [call EXCEPT
       !.returned = TRUE,
       !.result = classify_risk(call.args[1])]
  /\ UNCHANGED <<geomVars, batchVars, violationVars>>

SeverityFromScore ==
  /\ Pending("spatial.severity_from_score")
  /\ call' = [call EXCEPT
       !.returned = TRUE,
       !.result = severity_from_score(call.args[1])]
  /\ UNCHANGED <<geomVars, batchVars, violationVars>>

ClassifyViolationType ==
  /\ Pending("EncroachmentAnalyzer.classify_violation_type")
  /\ call' = [call EXCEPT
       !.returned = TRUE,
       !.result = classify_violation_type(call.args[1], call.args[2],
                                          call.args[3], call.args[4])]
  /\ UNCHANGED <<geomVars, batchVars, violationVars>>

\* polygon_area_sqm(coords), the result in area units
PolygonAreaSqm ==
  /\ Pending("polygon_area_sqm")
  /\ call' = [call EXCEPT
       !.returned = TRUE,
       !.result = polygon_area_sqm(call.args[1])]
  /\ UNCHANGED <<geomVars, batchVars, violationVars>>

\* buffer_polygon(coords, buffer_m)
BufferPolygon ==
  /\ Pending("buffer_polygon")
  /\ call' = [call EXCEPT
       !.returned = TRUE,
       !.result = buffer_polygon(call.args[1], call.args[2])]
  /\ UNCHANGED <<geomVars, batchVars, violationVars>>

\* polygon_difference(subject, clip)
PolygonDifference ==
  /\ Pending("polygon_difference")
  /\ call' = [call EXCEPT
       !.returned = TRUE,
       !.result = polygon_difference(call.args[1], call.args[2])]
  /\ UNCHANGED <<geomVars, batchVars, violationVars>>

\* spatial_analysis.compute_iou(area_allotted, area_detected, area_intersection)
SaComputeIou ==
  /\ Pending("spatial_analysis.compute_iou")
  /\ call' = [call EXCEPT
       !.returned = TRUE,
       !.result = compute_iou(call.args[1], call.args[2], call.args[3])]
  /\ UNCHANGED <<geomVars, batchVars, violationVars>>

\* spatial_analysis.compute_area_deviation(allotted_sqm, detected_sqm)
SaComputeAreaDeviation ==
  /\ Pending("spatial_analysis.compute_area_deviation")
  /\ call' = [call EXCEPT
       !.returned = TRUE,
       !.result = compute_area_deviation(call.args[1], call.args[2])]
  /\ UNCHANGED <<geomVars, batchVars, violationVars>>

\* spatial.compute_iou on two geometries of areas call.args[1] and
\* call.args[2] that share an area of call.args[3]: their union has the area
\* of the two less the shared part
SpComputeIou ==
  /\ Pending("spatial.compute_iou")
  /\ call' = [call EXCEPT
       !.returned = TRUE,
       !.result = sp_compute_iou(call.args[3],
                                 call.args[1] + call.args[2] - call.args[3])]
  /\ UNCHANGED <<geomVars, batchVars, violationVars>>

NextRisk ==
  \/ EaComputeRiskScore
  \/ SaComputeRiskScore
  \/ SpComputeRiskScore
  \/ ClassifyRisk
  \/ SeverityFromScore
  \/ ClassifyViolationType
  \/ PolygonAreaSqm
  \/ BufferPolygon
  \/ PolygonDifference
  \/ SaComputeIou
  \/ SaComputeAreaDeviation
  \/ SpComputeIou

SpecRisk == InitRisk /\ [][NextRisk]_vars

\* ------------------------------------------------ region batch properties
\* C1: in batch_analyze_region no detection is chosen as the best match of
\* more than one plot: a detection overlapping two plots is used by one of
\* them only
C1_DetectionUsedOnce ==
  report # <<>> =>
    \A i, j \in 1..Len(best_match) :
      (i # j /\ best_match[i] # 0) => best_match[i] # best_match[j]

\* C2: every plot with a well-formed boundary and no matching detection
\* appears in the per-plot results as a vacant entry: iou 0, area deviation
\* -100 percent, severity low
C2_UnmatchedReportedVacant ==
  report # <<>> =>
    \A i \in 1..Len(plots) :
      (Len(plots[i].boundary_coords) >= 4 /\ best_match[i] = 0) =>
        \E k \in 1..Len(report.plot_analyses) :
          LET e == report.plot_analyses[k]
          IN /\ e.plot_id = plots[i].plot_id
             /\ e.iou = 0
             /\ e.area_deviation_pct = -10000
             /\ e.severity \in {"low", "LOW"}

\* C3: the per-plot entries of the report partition the input plots: every
\* input plot has exactly one entry (matched or vacant), and the number of
\* entries is the number of input plots
C3_EntriesPartitionPlots ==
  report # <<>> =>
    /\ Len(report.plot_analyses) = Len(plots)
    /\ \A i \in 1..Len(plots) :
         Cardinality({ k \in 1..Len(report.plot_analyses) :
                         report.plot_analyses[k].plot_id = plots[i].plot_id }) = 1

\* C4: a plot whose boundary is malformed (fewer than 4 points, or a ring that
\* is not closed) is reported with an explicit error marker and gets no
\* compliance result, while the other plots are still processed
C4_MalformedPlotMarked ==
  report # <<>> =>
    \A i \in 1..Len(plots) :
      LET ring == plots[i].boundary_coords
          entries == { k \in 1..Len(report.plot_analyses) :
                         report.plot_analyses[k].plot_id = plots[i].plot_id }
      IN (Len(ring) < 4 \/ ring[1] # ring[Len(ring)]) =>
           /\ entries # {}
           /\ \A k \in entries : "error" \in DOMAIN report.plot_analyses[k]

\* ------------------------------------------------ single plot properties
\* C5: for every pair of closed rings the analysis returns an iou in [0, 1],
\* non-negative areas and Hausdorff distance, and an intersection area that
\* does not exceed the smaller of the two polygon areas
C5_AnalysisRanges ==
  analysis # <<>> =>
    /\ analysis.iou \in 0..10000
    /\ analysis.allotted_area_sqm >= 0
    /\ analysis.detected_area_sqm >= 0
    /\ analysis.intersection_area_sqm >= 0
    /\ analysis.encroachment_area_sqm >= 0
    /\ analysis.hausdorff_distance_m >= 0
    /\ analysis.intersection_area_sqm
         <= Min(analysis.allotted_area_sqm, analysis.detected_area_sqm)

\* C6: a non-degenerate polygon analysed against an exact copy of itself has
\* iou 1.0, in either winding direction
C6_SelfIouIsOne ==
  (analysis # <<>> /\ allotted = detected /\ polygon_area_sqm(allotted) > 0) =>
    analysis.iou = 10000

\* C7: the iou is symmetric: the analysis of (A, B) returns the iou that the
\* analysis of (B, A) returns
C7_IouSymmetric ==
  analysis # <<>> => analysis.iou = analysis_iou(detected, allotted)

\* ------------------------------------------------ risk engine properties
\* C8: each of the three composite risk score functions returns a value in
\* [0, 1] for all inputs, out-of-range inputs included
C8_RiskInUnitInterval ==
  (call # <<>> /\ call.returned) =>
    /\ call.fn = "EncroachmentAnalyzer.compute_risk_score"
         => call.result \in 0..10000
    /\ call.fn = "spatial_analysis.compute_risk_score"
         => call.result \in 0..1000
    /\ call.fn = "spatial.compute_risk_score"
         => call.result \in 0..10000

\* C9: EncroachmentAnalyzer.compute_risk_score is non-decreasing in
\* |deviation_pct|, in (1 - iou) and in max_depth_m, each with the other
\* inputs held fixed
C9_RiskMonotone ==
  (call # <<>> /\ call.returned
   /\ call.fn = "EncroachmentAnalyzer.compute_risk_score") =>
    LET a == call.args
    IN /\ \A d \in DeviationValues :
            Abs(d) >= Abs(a[2]) =>
              ea_compute_risk_score(a[1], d, a[3], a[4], a[5]) >= call.result
       /\ \A i \in IouValues :
            i <= a[1] =>
              ea_compute_risk_score(i, a[2], a[3], a[4], a[5]) >= call.result
       /\ \A m \in DepthValues :
            m >= a[3] =>
              ea_compute_risk_score(a[1], a[2], m, a[4], a[5]) >= call.result

\* a returned score that a larger |deviation_pct|, a smaller iou and a larger
\* depth each raise strictly
C9_Witness ==
  /\ call # <<>>
  /\ call.returned
  /\ call.fn = "EncroachmentAnalyzer.compute_risk_score"
  /\ LET a == call.args
     IN /\ \E d \in DeviationValues :
             /\ Abs(d) > Abs(a[2])
             /\ ea_compute_risk_score(a[1], d, a[3], a[4], a[5]) > call.result
        /\ \E i \in IouValues :
             /\ i < a[1]
             /\ ea_compute_risk_score(i, a[2], a[3], a[4], a[5]) > call.result
        /\ \E m \in DepthValues :
             /\ m > a[3]
             /\ ea_compute_risk_score(a[1], a[2], m, a[4], a[5]) > call.result
        /\ a[2] < 0

\* C10: classify_risk maps s < 0.20 to LOW, 0.20 <= s < 0.40 to MODERATE,
\* 0.40 <= s < 0.60 to HIGH, 0.60 <= s < 0.80 to CRITICAL and s >= 0.80 to
\* SEVERE; it is total on [0, 1] and non-decreasing in s
C10_ClassifyRiskLadder ==
  (call # <<>> /\ call.returned
   /\ call.fn = "EncroachmentAnalyzer.classify_risk") =>
    LET s == call.args[1]
        ladder == <<"LOW", "MODERATE", "HIGH", "CRITICAL", "SEVERE">>
        rank(label) == CHOOSE r \in 1..5 : ladder[r] = label
        above == { t \in {s + 1} \cup { 1000 * k : k \in 0..10 } :
                     t \in ScoreValues /\ t >= s }
    IN /\ call.result \in { ladder[r] : r \in 1..5 }
       /\ (s < 2000) = (call.result = "LOW")
       /\ (2000 <= s /\ s < 4000) = (call.result = "MODERATE")
       /\ (4000 <= s /\ s < 6000) = (call.result = "HIGH")
       /\ (6000 <= s /\ s < 8000) = (call.result = "CRITICAL")
       /\ (s >= 8000) = (call.result = "SEVERE")
       /\ \A t \in above : rank(classify_risk(t)) >= rank(call.result)

\* a score exactly on a threshold, classified into the upper bucket
C10_Witness ==
  /\ call # <<>>
  /\ call.returned
  /\ call.fn = "EncroachmentAnalyzer.classify_risk"
  /\ call.args[1] = 6000
  /\ call.result = "CRITICAL"

\* C11: severity_from_score has exactly the four labels LOW, MEDIUM, HIGH,
\* CRITICAL with cut points 0.2, 0.4, 0.6 (every score >= 0.6 is CRITICAL),
\* and orders SEVERE and CRITICAL as classify_risk does: no score is
\* labelled SEVERE below a score labelled CRITICAL
C11_FourLevelScheme ==
  (call # <<>> /\ call.returned /\ call.fn = "spatial.severity_from_score") =>
    LET s == call.args[1]
        above == { t \in { 1000 * k : k \in 0..10 } : t > s }
    IN /\ call.result \in {"LOW", "MEDIUM", "HIGH", "CRITICAL"}
       /\ (s < 2000) = (call.result = "LOW")
       /\ (2000 <= s /\ s < 4000) = (call.result = "MEDIUM")
       /\ (4000 <= s /\ s < 6000) = (call.result = "HIGH")
       /\ (s >= 6000) = (call.result = "CRITICAL")
       /\ \A t \in above :
            call.result = "SEVERE" =>
              /\ severity_from_score(t) # "CRITICAL"
              /\ classify_risk(t) # "CRITICAL"

\* C12: classify_violation_type applies its rules in priority order, first
\* match wins, for every allotted class: non-empty encroachment with
\* deviation > 10 gives BOUNDARY_EXCEED, non-empty encroachment otherwise
\* ENCROACHMENT; a detected class that differs from the allotted class gives
\* VACANCY when it is vacant and LAND_USE_CHANGE when it is not; deviation
\* < -30 gives PARTIAL_UTILIZATION; otherwise UNAUTHORIZED_CONSTRUCTION
C12_ViolationTypeRules ==
  (call # <<>> /\ call.returned
   /\ call.fn = "EncroachmentAnalyzer.classify_violation_type") =>
    LET deviation_pct == call.args[1]
        nonempty == call.args[2] = "polygon"
        detected_class == call.args[3]
        allotment_class == call.args[4]
    IN call.result =
         IF nonempty /\ deviation_pct > 1000 THEN "BOUNDARY_EXCEED"
         ELSE IF nonempty THEN "ENCROACHMENT"
         ELSE IF detected_class # allotment_class /\ detected_class = "VACANT"
         THEN "VACANCY"
         ELSE IF detected_class # allotment_class THEN "LAND_USE_CHANGE"
         ELSE IF deviation_pct < -3000 THEN "PARTIAL_UTILIZATION"
         ELSE "UNAUTHORIZED_CONSTRUCTION"

\* C13: whenever the analysis reports an encroachment polygon, the reported
\* encroachment area is at least 1.0 m^2 (an encroachment that is empty or
\* smaller than 1.0 m^2 is reported as None)
C13_EncroachmentFloor ==
  (analysis # <<>> /\ analysis.encroachment_geojson # <<>>) =>
    /\ analysis.encroachment_area_sqm >= 10
    /\ analysis.encroachment_geojson.area_sqm >= 10

\* C14: when the plot (an axis-parallel rectangle here) contains the detected
\* ring with a margin of at least the tolerance on every side, the analysis
\* reports no encroachment polygon (None)
C14_ContainedHasNoEncroachment ==
  LET xs == { allotted[i][1] : i \in 1..Len(allotted) }
      ys == { allotted[i][2] : i \in 1..Len(allotted) }
      m == Res * MarginMicroDeg
      inside == \A j \in 1..Len(detected) :
                  /\ SetMin(xs) + m <= detected[j][1]
                  /\ detected[j][1] <= SetMax(xs) - m
                  /\ SetMin(ys) + m <= detected[j][2]
                  /\ detected[j][2] <= SetMax(ys) - m
  IN (analysis # <<>> /\ inside) => analysis.encroachment_geojson = <<>>

\* C15: when the detected ring is identical to the plot ring the analysis
\* reports area deviation 0, no encroachment polygon and encroachment area 0
\* (the iou of 1 that makes the s_iou term 0 is C6)
C15_IdenticalRings ==
  (analysis # <<>> /\ detected = allotted) =>
    /\ analysis.area_deviation_pct = 0
    /\ analysis.encroachment_geojson = <<>>
    /\ analysis.encroachment_area_sqm = 0

C17_HausdorffSymmetric ==
  analysis # <<>> =>
    /\ analysis.hausdorff_distance_m = hausdorff_distance(detected, allotted)
    /\ hausdorff_distance(allotted, allotted) = 0
    /\ hausdorff_distance(detected, detected) = 0
    /\ (detected = allotted => analysis.hausdorff_distance_m = 0)

\* two different rings whose directed distances differ, analysed
C17_Witness ==
  /\ analysis # <<>>
  /\ analysis.hausdorff_distance_m > 0
  /\ directed_hausdorff(allotted, detected) # directed_hausdorff(detected, allotted)

\* C18: polygon_area_sqm returns a value >= 0 for every ring, whichever way
\* its vertices wind, and exactly 0 for a ring of fewer than 4 points
C18_AreaNonNegative ==
  (call # <<>> /\ call.returned /\ call.fn = "polygon_area_sqm") =>
    /\ call.result >= 0
    /\ (Len(call.args[1]) < 4 => call.result = 0)

\* the area of a clockwise ring, returned positive
C18_Witness ==
  /\ call # <<>>
  /\ call.returned
  /\ call.fn = "polygon_area_sqm"
  /\ Len(call.args[1]) >= 4
  /\ ~IsCCW(call.args[1])
  /\ call.result > 0

C20_OrderIndependent ==
  (/\ report # <<>>
   /\ call # <<>>
   /\ call.fn = "batch_analyze_region"
   /\ call.returned) =>
    /\ call.result.total_plots_analyzed = report.total_plots_analyzed
    /\ call.result.violations_found = report.violations_found
    /\ call.result.severity_breakdown = report.severity_breakdown
    /\ call.result.total_encroachment_sqm = report.total_encroachment_sqm

\* a batch whose first plot has no match while a later one has, analysed
\* as given and again in another order that starts with a matched plot
C20_Witness ==
  /\ report # <<>>
  /\ call # <<>>
  /\ call.fn = "batch_analyze_region"
  /\ call.returned
  /\ Len(plots) >= 2
  /\ best_match[1] = 0
  /\ best_match[call.args[1][1]] # 0
  /\ report.total_encroachment_sqm > 0
  /\ call.result.plot_analyses # report.plot_analyses

C22_BestOverlapFirstWins ==
  report # <<>> =>
    \A i \in 1..Len(plots) :
      Len(plots[i].boundary_coords) >= 4 =>
        LET area == [ k \in 1..Len(detected_structures) |->
                        polygon_area_sqm(
                          polygon_intersection(
                            detected_structures[k].detected_coords,
                            plots[i].boundary_coords)) ]
            m == best_match[i]
        IN IF \A k \in 1..Len(detected_structures) : area[k] = 0
           THEN m = 0
           ELSE /\ m \in 1..Len(detected_structures)
                /\ area[m] > 0
                /\ \A k \in 1..Len(detected_structures) :
                     /\ area[k] <= area[m]
                     /\ (k < m => area[k] < area[m])

\* a plot matched to the first of two detections of the list that overlap
\* it by the same positive area (the same footprint detected twice)
C22_Witness ==
  /\ report # <<>>
  /\ Len(plots) >= 1
  /\ Len(detected_structures) = 2
  /\ detected_structures[1].detected_coords
       = detected_structures[2].detected_coords
  /\ best_match[1] = 1
  /\ report.violations_found >= 1

\* C23: polygon_difference(subject, clip) returns the empty ring when the
\* area of intersection(subject, clip) is at least 95% of the subject's, the
\* subject when there is no intersection, and the subject, unclipped, in
\* every other case; it returns nothing else
C23_DifferenceThreeWay ==
  (call # <<>> /\ call.returned /\ call.fn = "polygon_difference") =>
    LET subject == call.args[1]
        inter == polygon_intersection(subject, call.args[2])
    IN /\ call.result \in {<<>>, subject}
       /\ inter = <<>> => call.result = subject
       /\ (inter # <<>> /\ polygon_area_sqm(inter) * 100
                             >= polygon_area_sqm(subject) * 95)
            => call.result = <<>>
       /\ (inter # <<>> /\ polygon_area_sqm(inter) * 100
                             < polygon_area_sqm(subject) * 95)
            => call.result = subject

\* a subject that the clip ring cuts, overlapping less than 95% of it,
\* returned whole
C23_Witness ==
  /\ call # <<>>
  /\ call.returned
  /\ call.fn = "polygon_difference"
  /\ polygon_area_sqm(polygon_intersection(call.args[1], call.args[2])) > 0
  /\ call.result = call.args[1]

\* C24: on zero areas compute_iou (either implementation) returns 1.0 when
\* both areas are zero and 0.0 when the union is zero but the areas are not
\* both zero; compute_area_deviation returns 0 when the allotted area is zero
\* and, for a non-zero allotted area, a positive value exactly when the
\* detected area exceeds the allotted area
C24_ZeroAreaConventions ==
  (call # <<>> /\ call.returned) =>
    /\ call.fn \in {"spatial_analysis.compute_iou", "spatial.compute_iou"} =>
         LET union == call.args[1] + call.args[2] - call.args[3]
         IN /\ (call.args[1] = 0 /\ call.args[2] = 0 /\ union = 0)
                 => call.result = 10000
            /\ (union = 0 /\ ~(call.args[1] = 0 /\ call.args[2] = 0))
                 => call.result = 0
    /\ call.fn = "spatial_analysis.compute_area_deviation" =>
         /\ call.args[1] = 0 => call.result = 0
         /\ call.args[1] # 0 => (call.result > 0 <=> call.args[2] > call.args[1])

\* C25: the intersection does not depend on the winding direction of the
\* clip ring: the intersection area the analysis reports is the area it gets
\* with the plot ring reversed, and when the detected rectangle and the plot
\* rectangle overlap the intersection is not empty
C25_WindingIndependent ==
  analysis # <<>> =>
    LET xs == { allotted[i][1] : i \in 1..Len(allotted) }
        ys == { allotted[i][2] : i \in 1..Len(allotted) }
        dx == { detected[j][1] : j \in 1..Len(detected) }
        dy == { detected[j][2] : j \in 1..Len(detected) }
        overlap == /\ Len(detected) = 5
                   /\ Cardinality(dx) = 2 /\ Cardinality(dy) = 2
                   /\ SetMin(dx) < SetMax(xs) /\ SetMin(xs) < SetMax(dx)
                   /\ SetMin(dy) < SetMax(ys) /\ SetMin(ys) < SetMax(dy)
    IN /\ analysis.intersection_area_sqm
            = SqmTenths(analysis_inter_area(Reverse(allotted), detected))
       /\ overlap => polygon_intersection(detected, allotted) # <<>>

\* C26: in every result of batch_analyze_region the values of
\* severity_breakdown sum to violations_found, violations_found is the length
\* of plot_analyses and at most total_plots_analyzed, the entries carry the
\* plot_ids of different input plots, and total_encroachment_sqm is the sum
\* of the entries' encroachment_area_sqm
C26_CountsConsistent ==
  report # <<>> =>
    LET pa == report.plot_analyses
        sb == report.severity_breakdown
    IN /\ sb.low + sb.medium + sb.high + sb.critical = report.violations_found
       /\ report.violations_found = Len(pa)
       /\ report.violations_found <= report.total_plots_analyzed
       /\ report.total_plots_analyzed = Len(plots)
       /\ \A i \in 1..Len(pa) :
            \E j \in 1..Len(plots) : pa[i].plot_id = plots[j].plot_id
       /\ \A i, j \in 1..Len(pa) : pa[i].plot_id = pa[j].plot_id => i = j
       /\ report.total_encroachment_sqm
            = SumEncroachment(pa, Len(pa))

\* a report with two entries of different severity and a plot without one
C26_Witness ==
  /\ report # <<>>
  /\ report.violations_found >= 2
  /\ report.violations_found < report.total_plots_analyzed
  /\ report.plot_analyses[1].severity # report.plot_analyses[2].severity
  /\ report.total_encroachment_sqm > 0

\* ------------------------------------------------------ violation store
\* violations.py keeps _violations_db and _alert_queue at module level; the
\* API layer keeps _violations_seeded.  Ids are uuid4 strings in the code;
\* here the id of a violation is its position in order of creation, and an
\* id beyond the store is one the store never issued.
None == 0      \* Python's None: no id, no timestamp
UtcNow == 1    \* datetime.now().isoformat(), whatever the clock reads
NoRegion == "" \* region left out of the query: the handler tests `if region`

MaxViolations == 2   \* violations the store may hold
MaxUpdates == 2      \* status changes applied to the store in one run

SEVERITY_ORDER == [ low |-> 0, medium |-> 1, high |-> 2, critical |-> 3 ]

\* SEVERITY_ORDER.get(severity, 2): a default that raises an alert
SeverityOrderGetHigh(severity) ==
  IF severity \in DOMAIN SEVERITY_ORDER THEN SEVERITY_ORDER[severity] ELSE 2

\* SEVERITY_ORDER.get(severity, 0)
SeverityOrderGet(severity) ==
  IF severity \in DOMAIN SEVERITY_ORDER THEN SEVERITY_ORDER[severity] ELSE 0

\* severity strings handed to create_violation by hand; "severe" is not a
\* key of SEVERITY_ORDER ("medium" and "critical" enter the store through
\* seeding)
SeverityInputs == {"low", "high", "severe"}
\* new_status strings handed to update_violation_status (not validated)
StatusInputs == {"acknowledged", "resolved", "dismissed"}
\* ids handed to the API: the ids the store has issued and the one it would
\* issue next, which it does not hold yet
ViolationIds(db) == 1..(Len(db) + 1)

\* the record create_violation builds, reduced to the fields the store's
\* functions read or write afterwards
NewViolation(vid, plot_id, region_id, violation_type, severity) ==
  [ id |-> vid, plot_id |-> plot_id, region_id |-> region_id,
    violation_type |-> violation_type, severity |-> severity,
    status |-> "open", acknowledged_at |-> None, resolved_at |-> None,
    audit_trail |-> << [ action |-> "created", by |-> "ILMCS_AUTO" ] >> ]

\* the alert queue after create_violation has filed violation vid
AlertsAfterCreate(queue, vid, severity) ==
  IF SeverityOrderGet(severity) >= 2
    THEN Append(queue, [ violation_id |-> vid, severity |-> severity,
                         read |-> FALSE ])
    ELSE queue

\* create_violation: the store and the queue it leaves behind (st holds
\* the module state: db, queue, seeded)
create_violation(st, plot_id, region_id, violation_type, severity) ==
  [ st EXCEPT
      !.db = Append(@, NewViolation(Len(st.db) + 1, plot_id, region_id,
                                    violation_type, severity)),
      !.queue = AlertsAfterCreate(@, Len(st.db) + 1, severity) ]

\* a status change that keeps only the timestamp of the status it sets
StatusChangedReset(v, new_status, by) ==
  [ v EXCEPT
      !.status = new_status,
      !.acknowledged_at = IF new_status = "acknowledged" THEN UtcNow ELSE None,
      !.resolved_at = IF new_status = "resolved" THEN UtcNow ELSE None,
      !.audit_trail = Append(@, [ action |-> "status_changed",
                                  from |-> v.status, to |-> new_status,
                                  by |-> by ]) ]

\* the record update_violation_status leaves for a stored violation v
StatusChanged(v, new_status, by) ==
  [ v EXCEPT
      !.status = new_status,
      !.acknowledged_at = IF new_status = "acknowledged" THEN UtcNow ELSE @,
      !.resolved_at = IF new_status = "resolved" THEN UtcNow ELSE @,
      !.audit_trail = Append(@, [ action |-> "status_changed",
                                  from |-> v.status, to |-> new_status,
                                  by |-> by ]) ]

\* update_violation_status without the test for a missing record
update_violation_status_unchecked(db, violation_id, new_status, by) ==
  [ db |-> IF violation_id \in DOMAIN db
             THEN [ db EXCEPT ![violation_id] =
                      StatusChanged(db[violation_id], new_status, by) ]
             ELSE db,
    result |-> violation_id ]

\* update_violation_status: the store it leaves and what it returns (the
\* stored record, named by its id, or None)
update_violation_status(db, violation_id, new_status, by) ==
  IF violation_id \notin DOMAIN db
    THEN [ db |-> db, result |-> None ]
    ELSE [ db |-> [ db EXCEPT ![violation_id] =
                      StatusChanged(db[violation_id], new_status, by) ],
           result |-> violation_id ]

\* status changes recorded in the store so far
RECURSIVE UpdatesDone(_)
UpdatesDone(db) ==
  IF db = <<>> THEN 0
  ELSE (Len(Head(db).audit_trail) - 1) + UpdatesDone(Tail(db))

\* REGION_CATALOG, reduced to two of its keys, and a key it does not hold
RegionCatalogKeys == << "khaprikhurd", "narayanbahali" >>
RegionCatalog == { RegionCatalogKeys[i] : i \in DOMAIN RegionCatalogKeys }
RegionKeys == RegionCatalog \cup { "atlantis" }

\* the plots _subdivide_boundary_into_plots yields for a region, reduced to
\* a few plots and to the fields generate_region_violations reads
\* (risk_score in hundredths)
RegionPlots(region_key) ==
  IF region_key = "khaprikhurd"
    THEN << [ plot_id |-> "khaprikhurd-1", status |-> "Encroached",
              risk_score |-> 90 ],
            [ plot_id |-> "khaprikhurd-2", status |-> "Under Construction",
              risk_score |-> 30 ] >>
    ELSE << [ plot_id |-> "narayanbahali-1", status |-> "Available",
              risk_score |-> 10 ],
            [ plot_id |-> "narayanbahali-2", status |-> "Disputed",
              risk_score |-> 50 ] >>

\* rng.random() for a plot, in hundredths: the generator is seeded from the
\* region id, so a region draws the same numbers every time
RngRandom(region_id, plot_id) ==
  IF region_id = "khaprikhurd" THEN 70 ELSE 50

\* one pass of the loop of generate_region_violations over plot
GenerateForPlot(st, region_id, plot) ==
  IF plot.status = "Encroached"
    THEN create_violation(st, plot.plot_id, region_id,
           "encroachment",
           IF plot.risk_score > 80 THEN "critical" ELSE "high")
  ELSE IF plot.status = "Disputed"
    THEN create_violation(st, plot.plot_id, region_id,
           "boundary_deviation",
           IF plot.risk_score > 60 THEN "high" ELSE "medium")
  ELSE IF plot.status = "Available" /\ RngRandom(region_id, plot.plot_id) < 30
    THEN create_violation(st, plot.plot_id, region_id,
           "vacant_unused", "low")
  ELSE IF plot.status = "Under Construction"
          /\ RngRandom(region_id, plot.plot_id) < 40
    THEN create_violation(st, plot.plot_id, region_id,
           "partial_construction", "low")
  ELSE st

\* generate_region_violations: the store and the queue after the loop
RECURSIVE generate_region_violations(_, _, _)
generate_region_violations(st, region_id, region_plots) ==
  IF region_plots = <<>> THEN st
  ELSE generate_region_violations(
         GenerateForPlot(st, region_id, Head(region_plots)),
         region_id, Tail(region_plots))

\* _ensure_violations_seeded without the membership test
EnsureViolationsSeededAgain(st, region_key) ==
  IF region_key \notin RegionCatalog THEN st
  ELSE [ generate_region_violations(st, region_key, RegionPlots(region_key))
           EXCEPT !.seeded = @ \cup {region_key} ]

\* _ensure_violations_seeded: store, queue and seeded set it leaves
EnsureViolationsSeeded(st, region_key) ==
  IF region_key \in st.seeded THEN st
  ELSE IF region_key \notin RegionCatalog THEN st
  ELSE [ generate_region_violations(st, region_key, RegionPlots(region_key))
           EXCEPT !.seeded = @ \cup {region_key} ]

\* for rk in list(REGION_CATALOG.keys())[:10]: _ensure_violations_seeded(rk)
RECURSIVE SeedKeys(_, _)
SeedKeys(st, keys) ==
  IF keys = <<>> THEN st
  ELSE SeedKeys(EnsureViolationsSeeded(st, Head(keys)), Tail(keys))

DemoKeys ==
  SubSeq(RegionCatalogKeys, 1,
         IF Len(RegionCatalogKeys) < 10 THEN Len(RegionCatalogKeys) ELSE 10)

StoreState ==
  [ db |-> violations_db, queue |-> alert_queue, seeded |-> violations_seeded ]

\* get_violations(region_id=...)["total"]
ViolationsTotal(db, region_id) ==
  Cardinality({ i \in DOMAIN db :
                  region_id = NoRegion \/ db[i].region_id = region_id })

Returned(fn, args, result) ==
  [ fn |-> fn, args |-> args, returned |-> TRUE, result |-> result ]

InitViolations ==
  /\ violations_db = <<>>
  /\ alert_queue = <<>>
  /\ violations_seeded = {}
  /\ call = <<>>
  /\ GeomIdle
  /\ BatchIdle

\* a caller files a violation by hand
CreateViolation ==
  \E severity \in SeverityInputs :
    /\ Len(violations_db) < MaxViolations
    /\ LET out == create_violation(StoreState, "PLOT-1", "khaprikhurd",
                                   "encroachment", severity)
       IN /\ violations_db' = out.db
          /\ alert_queue' = out.queue
    /\ call' = Returned("create_violation", <<severity>>,
                        Len(violations_db) + 1)
    /\ UNCHANGED <<violations_seeded, geomVars, batchVars>>

\* PATCH /api/violations/{violation_id}: the result holds what
\* update_violation_status returned and the status code of the response
ApiUpdateViolation ==
  \E violation_id \in ViolationIds(violations_db), new_status \in StatusInputs :
    /\ UpdatesDone(violations_db) < MaxUpdates
    /\ LET out == update_violation_status(violations_db, violation_id,
                                          new_status, "api_user")
       IN /\ violations_db' = out.db
          /\ call' = Returned("api_update_violation",
                              <<violation_id, new_status>>,
                              [ result |-> out.result,
                                status_code |-> IF out.result = None
                                                  THEN 404 ELSE 200 ])
    /\ UNCHANGED <<alert_queue, violations_seeded, geomVars, batchVars>>

\* The handlers below are coroutines without an await in their bodies, so
\* the event loop runs each of them to its end before it starts another:
\* requests interleave handler by handler.

\* GET /api/legacy/violations
ApiGetLegacyViolations ==
  \E region \in RegionKeys \cup {NoRegion} :
    LET out == IF region # NoRegion
                 THEN EnsureViolationsSeeded(StoreState, region)
                 ELSE SeedKeys(StoreState, DemoKeys)
    IN /\ Len(out.db) <= MaxViolations
       /\ violations_db' = out.db
       /\ alert_queue' = out.queue
       /\ violations_seeded' = out.seeded
       /\ call' = Returned("api_get_legacy_violations", <<region>>,
                           ViolationsTotal(out.db, region))
       /\ UNCHANGED <<geomVars, batchVars>>

\* GET /api/alerts
ApiGetAlerts ==
  LET out == SeedKeys(StoreState, DemoKeys)
  IN /\ Len(out.db) <= MaxViolations
     /\ violations_db' = out.db
     /\ alert_queue' = out.queue
     /\ violations_seeded' = out.seeded
     /\ call' = Returned("api_get_alerts", <<>>, Len(out.queue))
     /\ UNCHANGED <<geomVars, batchVars>>

NextViolations ==
  \/ CreateViolation
  \/ ApiUpdateViolation
  \/ ApiGetLegacyViolations
  \/ ApiGetAlerts

SpecViolations == InitViolations /\ [][NextViolations]_vars

\* C27: after any sequence of create_violation and update_violation_status
\* calls, every alert of the queue names a violation the store holds, and
\* the queue holds exactly one alert for each violation created with
\* severity "high" or "critical" and none for any other violation, one
\* created with an unknown severity string included
C27_AlertsMatchStore ==
  /\ \A k \in DOMAIN alert_queue :
       \E i \in DOMAIN violations_db :
         violations_db[i].id = alert_queue[k].violation_id
  /\ \A i \in DOMAIN violations_db :
       Cardinality({ k \in DOMAIN alert_queue :
                       alert_queue[k].violation_id = violations_db[i].id })
         = IF violations_db[i].severity \in {"high", "critical"} THEN 1 ELSE 0

\* a store with a violation of unknown severity and one that raised an
\* alert, after a status update went through
C27_Witness ==
  /\ \E i \in DOMAIN violations_db : violations_db[i].severity = "severe"
  /\ \E i \in DOMAIN violations_db : violations_db[i].severity = "high"
  /\ Len(alert_queue) = 1
  /\ \E i \in DOMAIN violations_db : Len(violations_db[i].audit_trail) > 1

IsPrefix(s, t) == Len(s) <= Len(t) /\ \A k \in DOMAIN s : s[k] = t[k]

\* C28: a violation's audit trail is append-only: it starts with one
\* "created" entry; each successful update_violation_status appends exactly
\* one "status_changed" entry whose "from" is the status held before the
\* call and whose "to" is the new status (so the trail has one entry more
\* than there were successful updates, and the "to" of its last entry is
\* the current status); no other step touches a trail; acknowledged_at and
\* resolved_at, once set, are never cleared
C28_AuditTrailAppendOnly ==
  /\ [](\A i \in DOMAIN violations_db :
          LET v == violations_db[i]
          IN /\ v.audit_trail[1].action = "created"
             /\ \A k \in 2..Len(v.audit_trail) :
                  v.audit_trail[k].action = "status_changed"
             /\ Len(v.audit_trail) > 1 =>
                  v.audit_trail[Len(v.audit_trail)].to = v.status
             /\ Len(v.audit_trail) = 1 => v.status = "open")
  /\ [][ /\ \A i \in DOMAIN violations_db :
              /\ i \in DOMAIN violations_db'
              /\ IsPrefix(violations_db[i].audit_trail,
                          violations_db'[i].audit_trail)
              /\ violations_db[i].acknowledged_at # None =>
                   violations_db'[i].acknowledged_at # None
              /\ violations_db[i].resolved_at # None =>
                   violations_db'[i].resolved_at # None
              /\ Len(violations_db'[i].audit_trail)
                   = Len(violations_db[i].audit_trail)
                     + (IF /\ call'.fn = "api_update_violation"
                           /\ call'.args[1] = i
                          THEN 1 ELSE 0)
         /\ \A i \in DOMAIN violations_db' \ DOMAIN violations_db :
              Len(violations_db'[i].audit_trail) = 1
         /\ ( /\ call'.fn = "api_update_violation"
              /\ call'.result.status_code = 200 ) =>
              LET i == call'.args[1]
                  t == violations_db'[i].audit_trail
              IN /\ t[Len(t)].from = violations_db[i].status
                 /\ t[Len(t)].to = call'.args[2]
                 /\ violations_db'[i].status = call'.args[2]
       ]_vars

\* a violation acknowledged and then resolved
C28_Witness ==
  \E i \in DOMAIN violations_db :
    /\ Len(violations_db[i].audit_trail) = 3
    /\ violations_db[i].audit_trail[2].to = "acknowledged"
    /\ violations_db[i].status = "resolved"
    /\ violations_db[i].acknowledged_at # None
    /\ violations_db[i].resolved_at # None

\* C29: update_violation_status called with an id the store does not hold
\* returns None and leaves the store, every stored record and the alert
\* queue as they were; the API layer answers 404
C29_UnknownIdChangesNothing ==
  [][ ( /\ call'.fn = "api_update_violation"
        /\ call'.args[1] \notin { violations_db[i].id :
                                    i \in DOMAIN violations_db } )
      => /\ call'.result.result = None
         /\ call'.result.status_code = 404
         /\ violations_db' = violations_db
         /\ alert_queue' = alert_queue ]_vars

\* a 404 answered by a store that holds a violation and an alert
C29_Witness ==
  /\ call # <<>>
  /\ call.fn = "api_update_violation"
  /\ call.result.status_code = 404
  /\ call.result.result = None
  /\ call.args[1] = Len(violations_db) + 1
  /\ Len(violations_db) >= 1
  /\ alert_queue # <<>>

\* violations in the store that were generated for a plot of the region
SeededCount(db, region_key) ==
  Cardinality({ i \in DOMAIN db :
                  /\ db[i].region_id = region_key
                  /\ \E k \in DOMAIN RegionPlots(region_key) :
                       RegionPlots(region_key)[k].plot_id = db[i].plot_id })

\* C30: across any sequence and any interleaving of requests to the
\* violations and alerts endpoints, violations are generated at most once
\* for a region key: the store holds one generation's worth of violations
\* for a region of the seeded set and none for any other, and a key that is
\* not in the catalog is never in the seeded set
C30_SeededAtMostOnce ==
  /\ violations_seeded \subseteq RegionCatalog
  /\ \A r \in RegionKeys :
       SeededCount(violations_db, r)
         = IF r \in violations_seeded
             THEN Len(generate_region_violations(
                        [ db |-> <<>>, queue |-> <<>>, seeded |-> {} ],
                        r, RegionPlots(r)).db)
             ELSE 0

\* a request for a region whose seeded violation has been updated since
C30_Witness ==
  /\ violations_seeded = RegionCatalog
  /\ call # <<>>
  /\ call.fn = "api_get_legacy_violations"
  /\ call.args[1] = "khaprikhurd"
  /\ call.result = 1
  /\ \E i \in DOMAIN violations_db :
       /\ violations_db[i].plot_id = "khaprikhurd-1"
       /\ Len(violations_db[i].audit_trail) > 1

====
